---- MODULE Spec2Model ----
(***************************************************************************)
(* Model of the fire-event server (src/server.js): the Express routes      *)
(* /, /health, POST /api/fire-events and GET /api/fire-events, the         *)
(* requireAuth middleware, the mongoose model FireEvent, the WhatsApp       *)
(* sender and the start-up sequence.                                       *)
(*                                                                         *)
(* Conventions.  A JavaScript value is a record tagged by t (its kind).    *)
(* Header values, the API key and the query parameter limit are sequences  *)
(* of one-character strings, so that startsWith, slice and Number parse    *)
(* them character by character.  A JavaScript number is a record           *)
(* [nan, m] where m counts thousandths (1500 is 1.5).  An asynchronous     *)
(* handler is one action per run-to-the-next-await.                        *)
(***************************************************************************)
EXTENDS Integers, Sequences, FiniteSets, TLC

VARIABLES server, cfg, clock, nextId, store, reqs

vars == <<server, cfg, clock, nextId, store, reqs>>

-----------------------------------------------------------------------------
(* Bounds of the model                                                     *)

MaxReq == 2

-----------------------------------------------------------------------------
(* JavaScript values                                                       *)

Undef == [t |-> "undefined"]

Null == [t |-> "null"]

Str(s) == [t |-> "string", s |-> s]

\* n counts thousandths: Num(870) is 0.87
Num(n) == [t |-> "number", n |-> n]

Bool(b) == [t |-> "boolean", b |-> b]

\* a JSON object with the keys label and conf (either may be Undef)
Obj(label, conf) == [t |-> "object", label |-> label, conf |-> conf]

\* a JSON array
Arr == [t |-> "array"]

\* a JSON object that has an own key "toString" holding a number, such as
\* {"toString": 1}: converting it to a primitive throws a TypeError
BadToString == [t |-> "object", label |-> Undef, conf |-> Undef, toStr |-> Num(1000)]

TypeOf(v) ==
    CASE v.t = "undefined" -> "undefined"
      [] v.t = "string" -> "string"
      [] v.t = "number" -> "number"
      [] v.t = "boolean" -> "boolean"
      [] OTHER -> "object"

\* ToBoolean
Truthy(v) ==
    CASE v.t = "undefined" -> FALSE
      [] v.t = "null" -> FALSE
      [] v.t = "string" -> v.s # ""
      [] v.t = "number" -> v.n # 0
      [] v.t = "boolean" -> v.b
      [] OTHER -> TRUE

\* ToPrimitive throws: the object's own toString is not callable and
\* Object.prototype.valueOf returns the object itself
ToPrimitiveThrows(v) == v.t = "object" /\ "toStr" \in DOMAIN v

\* property read  v.label / v.conf  on an object, undefined elsewhere
GetProp(v, key) ==
    IF v.t = "object"
    THEN (IF key = "label" THEN v.label ELSE v.conf)
    ELSE Undef

-----------------------------------------------------------------------------
(* Strings as sequences of characters                                      *)

Absent == [present |-> FALSE, s |-> <<>>]

Given(s) == [present |-> TRUE, s |-> s]

\* h || ""   for a header or query value
OrEmpty(h) == IF h.present THEN h.s ELSE <<>>

StartsWith(s, p) == Len(s) >= Len(p) /\ SubSeq(s, 1, Len(p)) = p

Slice(s, n) == SubSeq(s, n + 1, Len(s))

BearerPrefix == <<"B", "e", "a", "r", "e", "r", " ">>

-----------------------------------------------------------------------------
(* requireAuth (server.js 47-53)                                           *)

BearerLen == 7

\* const token = auth.startsWith("Bearer ") ? auth.slice(7) : "";
TokenOf(auth) == IF StartsWith(auth, BearerPrefix) THEN Slice(auth, BearerLen) ELSE <<>>

\* a faulty variant: a missing header is rejected even when no key is configured
AuthPassesKeyless(key, header) ==
    header.present /\ TokenOf(OrEmpty(header)) = key

\* a faulty variant: the token only has to begin like the key
AuthPassesPrefix(key, header) ==
    key = <<>> \/ StartsWith(key, TokenOf(OrEmpty(header)))

\* TRUE when requireAuth calls next(), FALSE when it answers 401
AuthPasses(key, header) ==
    \/ key = <<>>
    \/ TokenOf(OrEmpty(header)) = key

-----------------------------------------------------------------------------
(* Number(string), Math.min, Math.max (server.js 147)                      *)

NaN == [nan |-> TRUE, m |-> 0]

Finite(m) == [nan |-> FALSE, m |-> m]

\* numbers are counted in thousandths
Scale == 10 * 100

Digits == {"0", "1", "2", "3", "4", "5", "6", "7", "8", "9"}

DigitVal(c) ==
    CASE c = "0" -> 0 [] c = "1" -> 1 [] c = "2" -> 2 [] c = "3" -> 3
      [] c = "4" -> 4 [] c = "5" -> 5 [] c = "6" -> 6 [] c = "7" -> 7
      [] c = "8" -> 8 [] c = "9" -> 9

AllDigits(s) == \A i \in 1..Len(s) : s[i] \in Digits

RECURSIVE IntOf(_)
IntOf(s) == IF s = <<>> THEN 0 ELSE 10 * IntOf(SubSeq(s, 1, Len(s) - 1)) + DigitVal(s[Len(s)])

\* the value of the digits after the point, in thousandths (three digits at most)
FracOf(s) ==
    CASE Len(s) = 0 -> 0
      [] Len(s) = 1 -> 100 * IntOf(s)
      [] Len(s) = 2 -> 10 * IntOf(s)
      [] OTHER -> IntOf(SubSeq(s, 1, 3))

RECURSIVE TrimLeft(_)
TrimLeft(s) == IF s # <<>> /\ Head(s) = " " THEN TrimLeft(Tail(s)) ELSE s

RECURSIVE TrimRight(_)
TrimRight(s) ==
    IF s # <<>> /\ s[Len(s)] = " " THEN TrimRight(SubSeq(s, 1, Len(s) - 1)) ELSE s

PointAt(s) == IF \E i \in 1..Len(s) : s[i] = "." THEN CHOOSE i \in 1..Len(s) : s[i] = "." ELSE 0

\* an unsigned decimal literal: digits, digits.digits, digits. or .digits
UnsignedOf(s) ==
    LET p == PointAt(s)
        whole == IF p = 0 THEN s ELSE SubSeq(s, 1, p - 1)
        frac == IF p = 0 THEN <<>> ELSE SubSeq(s, p + 1, Len(s))
    IN  IF AllDigits(whole) /\ AllDigits(frac) /\ Len(whole) + Len(frac) > 0
        THEN Finite(Scale * IntOf(whole) + FracOf(frac))
        ELSE NaN

\* StringToNumber: white space is trimmed, the empty string is 0, a decimal
\* literal with an optional sign is its value, anything else is NaN.  (The
\* hexadecimal, exponent and Infinity forms are not modelled; the inputs of
\* the model do not use them.)
StringToNumber(s) ==
    LET u == TrimRight(TrimLeft(s))
    IN  CASE u = <<>> -> Finite(0)
          [] u # <<>> /\ Head(u) = "-" ->
                (LET v == UnsignedOf(Tail(u)) IN IF v.nan THEN NaN ELSE Finite(0 - v.m))
          [] u # <<>> /\ Head(u) = "+" -> UnsignedOf(Tail(u))
          [] OTHER -> UnsignedOf(u)

\* Math.min and Math.max return NaN when an argument is NaN
MathMin(a, b) == IF a.nan \/ b.nan THEN NaN ELSE (IF a.m <= b.m THEN a ELSE b)

MathMax(a, b) == IF a.nan \/ b.nan THEN NaN ELSE (IF a.m >= b.m THEN a ELSE b)

MinLimit == 1

MaxLimit == 200

DefaultLimit == 50

\* const limit = Math.max(1, Math.min(200, Number(req.query.limit || 50)));
LimitOf(q) ==
    LET n == IF q.present /\ q.s # <<>> THEN StringToNumber(q.s) ELSE Finite(Scale * DefaultLimit)
    IN  MathMax(Finite(Scale * MinLimit), MathMin(Finite(Scale * MaxLimit), n))

IsInteger(x) == ~x.nan /\ x.m % Scale = 0

-----------------------------------------------------------------------------
(* The mongoose model FireEvent (server.js 27-44)                          *)

\* new Date().toISOString() at clock value now
ToISOString(now) == "1970-01-01T00:00:0" \o ToString(now) \o ".000Z"

\* a || b
OrElse(a, b) == IF Truthy(a) THEN a ELSE b

\* a faulty variant: v || dflt, which lets a truthy value of any type through
StringOrTruthy(v, dflt) == IF Truthy(v) THEN v ELSE dflt

\* typeof v === "string" ? v : dflt
StringOr(v, dflt) == IF TypeOf(v) = "string" THEN v ELSE dflt

\* typeof body.timestamp === "string" ? body.timestamp : new Date().toISOString()
TimestampOf(v, now) == IF TypeOf(v) = "string" THEN v ELSE Str(ToISOString(now))

\* typeof body.best === "object" && body.best !== null ? body.best : null
BestOf(v) == IF TypeOf(v) = "object" /\ v # Null THEN v ELSE Null

\* a faulty variant: the client's received_at, ip and user_agent are taken
\* into the event when the body carries them
EventOfBody(body, hdr, now) ==
    [timestamp |-> TimestampOf(body.timestamp, now),
     score |-> StringOr(body.score, Str("")),
     best |-> BestOf(body.best),
     snapshot_filename |-> StringOr(body.snapshot_filename, Str("")),
     image_url |-> StringOr(body.image_url, Str("")),
     cloudinary_public_id |-> StringOr(body.cloudinary_public_id, Str("")),
     ip |-> OrElse(body.ip, OrElse(hdr.xff, OrElse(hdr.remote, Str("")))),
     user_agent |-> OrElse(body.user_agent, OrElse(hdr.ua, Str(""))),
     received_at |-> body.received_at]

\* the object literal  event  of the POST handler (server.js 97-116)
EventOf(body, hdr, now) ==
    [timestamp |-> TimestampOf(body.timestamp, now),
     score |-> StringOr(body.score, Str("")),
     best |-> BestOf(body.best),
     snapshot_filename |-> StringOr(body.snapshot_filename, Str("")),
     image_url |-> StringOr(body.image_url, Str("")),
     cloudinary_public_id |-> StringOr(body.cloudinary_public_id, Str("")),
     ip |-> OrElse(hdr.xff, OrElse(hdr.remote, Str(""))),
     user_agent |-> OrElse(hdr.ua, Str(""))]

\* new FireEvent(event): the document gets its _id and the schema default
\* received_at: Date.now when it is constructed
\* received_at: { type: Date, default: Date.now }: the default is taken when
\* the object given to the constructor has no received_at; a number given
\* there is cast to the date that many milliseconds after the epoch
ReceivedAtOf(event, now) ==
    IF "received_at" \in DOMAIN event /\ event.received_at.t = "number"
    THEN event.received_at.n \div Scale
    ELSE now

NewDoc(event, id, now) ==
    [_id |-> id,
     received_at |-> ReceivedAtOf(event, now),
     timestamp |-> event.timestamp,
     score |-> event.score,
     best |-> event.best,
     snapshot_filename |-> event.snapshot_filename,
     image_url |-> event.image_url,
     cloudinary_public_id |-> event.cloudinary_public_id,
     ip |-> event.ip,
     user_agent |-> event.user_agent]

NoDoc == [_id |-> 0]

\* timestamp: { type: String, required: true }: mongoose's required validator
\* of a String path rejects null, undefined and the empty string
Validates(doc) ==
    /\ doc.timestamp.t = "string"
    /\ doc.timestamp.s # ""

-----------------------------------------------------------------------------
(* The notification text (server.js 122-128)                               *)

\* the characters of the string literals that the inputs use as numbers
CharsOf(s) ==
    CASE s = "0.9" -> <<"0", ".", "9">>
      [] s = "0.5" -> <<"0", ".", "5">>
      [] s = "" -> <<>>
      [] OTHER -> <<"x">>

TwoDigits(n) == IF n < 10 THEN "0" \o ToString(n) ELSE ToString(n)

ThreeDigits(n) == IF n < 100 THEN "0" \o TwoDigits(n) ELSE ToString(n)

\* Number.prototype.toFixed(2); halves of a hundredth round up
ToFixed2(x) ==
    IF x.nan THEN "NaN"
    ELSE LET a == IF x.m < 0 THEN 0 - x.m ELSE x.m
             h == (a + 5) \div 10
             digits == ToString(h \div 100) \o "." \o TwoDigits(h % 100)
         IN  IF x.m < 0 THEN "-" \o digits ELSE digits

\* Number::toString of a number counted in thousandths
NumToString(n) ==
    LET a == IF n < 0 THEN 0 - n ELSE n
        f == a % Scale
        frac == CASE f = 0 -> ""
                  [] f # 0 /\ f % 100 = 0 -> "." \o ToString(f \div 100)
                  [] f % 100 # 0 /\ f % 10 = 0 -> "." \o TwoDigits(f \div 10)
                  [] OTHER -> "." \o ThreeDigits(f)
        digits == ToString(a \div Scale) \o frac
    IN  IF n < 0 THEN "-" \o digits ELSE digits

\* ToString of a value that converts (ToPrimitiveThrows is FALSE)
ToStringJS(v) ==
    CASE v.t = "string" -> v.s
      [] v.t = "number" -> NumToString(v.n)
      [] v.t = "boolean" -> (IF v.b THEN "true" ELSE "false")
      [] v.t = "null" -> "null"
      [] v.t = "undefined" -> "undefined"
      [] v.t = "array" -> ""
      [] OTHER -> "[object Object]"

\* ToNumber of a value that converts
ToNumber(v) ==
    CASE v.t = "string" -> StringToNumber(CharsOf(v.s))
      [] v.t = "number" -> Finite(v.n)
      [] v.t = "boolean" -> (IF v.b THEN Finite(Scale) ELSE Finite(0))
      [] v.t = "null" -> Finite(0)
      [] v.t = "array" -> Finite(0)
      [] OTHER -> NaN

\* building msgText throws a TypeError: a truthy best.label is converted to
\* a string, a truthy best.conf to a number
MsgThrows(best) ==
    \/ Truthy(GetProp(best, "label")) /\ ToPrimitiveThrows(GetProp(best, "label"))
    \/ Truthy(GetProp(best, "conf")) /\ ToPrimitiveThrows(GetProp(best, "conf"))

\* the lines of msgText, when building it does not throw
MsgText(timestamp, score, best, image_url, snapshot_filename) ==
    [time |-> ToStringJS(timestamp),
     score |-> ToStringJS(score),
     label |-> ToStringJS(OrElse(GetProp(best, "label"), Str("-"))),
     conf |-> IF Truthy(GetProp(best, "conf"))
              THEN ToFixed2(ToNumber(GetProp(best, "conf")))
              ELSE "-",
     image |-> ToStringJS(OrElse(image_url, OrElse(snapshot_filename, Str("-"))))]

NoText == [time |-> ""]

\* sendWhatsAppAlert returns { skipped: true } without calling fetch
SendSkips(c, to) == c.WA_PHONE_NUMBER_ID = "" \/ c.WA_ACCESS_TOKEN = "" \/ to = ""

-----------------------------------------------------------------------------
(* FireEvent.find().sort({ received_at: -1 }).limit(limit) (server.js 149) *)

\* a faulty variant: sort({ received_at: 1 })
InOrderAscending(a, b) == a.received_at <= b.received_at

\* sort({ received_at: -1 }): a may come before b
InOrder(a, b) == a.received_at >= b.received_at

\* every order of the documents with the indices in S that the sort may
\* produce; documents with equal received_at come in any order
RECURSIVE OrdersOf(_, _)
OrdersOf(st, S) ==
    IF S = {} THEN {<<>>}
    ELSE UNION {{<<st[i]>> \o o : o \in OrdersOf(st, S \ {i})} :
                   i \in {k \in S : \A j \in S : InOrder(st[k], st[j])}}

SortedOrders(st) == OrdersOf(st, 1..Len(st))

Prefix(seq, k) == SubSeq(seq, 1, IF k < Len(seq) THEN k ELSE Len(seq))

\* a faulty variant: limit() is not applied
FoundSetUnlimited(st, limit) == SortedOrders(st)

\* the results the query may give.  A whole number limits the result; what
\* the driver and the database do with NaN or a fraction is not decided by
\* this program, so any number of documents may come back
FoundSet(st, limit) ==
    IF IsInteger(limit)
    THEN {Prefix(o, limit.m \div Scale) : o \in SortedOrders(st)}
    ELSE {Prefix(o, k) : o \in SortedOrders(st), k \in 0..Len(st)}

-----------------------------------------------------------------------------
(* Responses                                                               *)

NoResp == [code |-> 0]

Unauthorized == [code |-> 401, ok |-> FALSE, error |-> "Unauthorized"]

Welcome == [code |-> 200, text |-> "Welcome to Fire detection App"]

HealthUp(now) == [code |-> 200, ok |-> TRUE, status |-> "up", time |-> ToISOString(now)]

Stored(saved) == [code |-> 200, ok |-> TRUE, message |-> "Event stored", event |-> saved]

StoreFailed(e) == [code |-> 500, ok |-> FALSE, error |-> "Failed to store event", details |-> e]

Listed(events) == [code |-> 200, ok |-> TRUE, count |-> Len(events), events |-> events]

\* a faulty variant: a failed query is answered as an empty list
ReadFailedAsEmptyList(e) == Listed(<<>>)

ReadFailed(e) == [code |-> 500, ok |-> FALSE, error |-> "Failed to read events", details |-> e]

-----------------------------------------------------------------------------
(* Inputs                                                                 *)

KeyAbc == <<"a", "b", "c">>

\* the WhatsApp settings: all set, no destination, no sender id, no token
WhatsAppSettings ==
    {[id |-> "1098", token |-> "EAAG", to |-> "15550001"],
     [id |-> "1098", token |-> "EAAG", to |-> ""],
     [id |-> "", token |-> "EAAG", to |-> "15550001"],
     [id |-> "1098", token |-> "", to |-> "15550001"]}

Configs ==
    {[MONGODB_URI |-> uri, API_KEY |-> key, WA_PHONE_NUMBER_ID |-> w.id,
      WA_ACCESS_TOKEN |-> w.token, WA_TO |-> w.to] :
        uri \in {"", "mongodb://db"}, key \in {<<>>, KeyAbc}, w \in WhatsAppSettings}

\* the configurations of the specification Spec: the messaging credentials
\* are set, with and without a key and a destination
OverlapConfigs ==
    {c \in Configs : c.WA_PHONE_NUMBER_ID # "" /\ c.WA_ACCESS_TOKEN # ""}

GoodHeader == Given(BearerPrefix \o KeyAbc)

AuthHeaders ==
    {Absent,
     GoodHeader,
     Given(<<>>),
     Given(BearerPrefix),
     Given(BearerPrefix \o <<"a", "b", "x">>),
     Given(BearerPrefix \o <<"a", "b">>),
     Given(BearerPrefix \o <<"a", "b", "c", "d">>),
     Given(<<"b", "e", "a", "r", "e", "r", " ">> \o KeyAbc),
     Given(KeyAbc)}

\* a request body: the six keys the handler reads, and the keys received_at,
\* ip and user_agent, which a client may send too
BodyOf(ts, score, best, snap, img, cpid) ==
    [timestamp |-> ts, score |-> score, best |-> best,
     snapshot_filename |-> snap, image_url |-> img, cloudinary_public_id |-> cpid,
     received_at |-> Undef, ip |-> Undef, user_agent |-> Undef]

\* no body, or {}
EmptyBody == BodyOf(Undef, Undef, Undef, Undef, Undef, Undef)

FullBody ==
    BodyOf(Str("2024-01-01T00:00:00Z"), Str("0.9"), Obj(Str("fire"), Num(870)),
           Str("snap.jpg"), Str("http://x/img.jpg"), Str("fire/1"))

\* {"timestamp": ""}
EmptyTimestampBody == BodyOf(Str(""), Undef, Undef, Undef, Undef, Undef)

\* {"timestamp": "t0", "received_at": 0, "ip": "6.6.6.6", "user_agent": "me"}
ClientStampedBody ==
    [BodyOf(Str("t0"), Undef, Undef, Undef, Undef, Undef) EXCEPT
        !.received_at = Num(0), !.ip = Str("6.6.6.6"), !.user_agent = Str("me")]

\* {"timestamp": "t1", "best": {"label": {"toString": 1}, "conf": 0.5}}
BadLabelBody == BodyOf(Str("t1"), Undef, Obj(BadToString, Num(500)), Undef, Undef, Undef)

\* {"timestamp": "t3", "best": {"label": "smoke", "conf": 0}}
ZeroConfBody == BodyOf(Str("t3"), Undef, Obj(Str("smoke"), Num(0)), Undef, Undef, Undef)

\* {"timestamp": "t4", "best": {"conf": "0.9"}}
StringConfBody == BodyOf(Str("t4"), Undef, Obj(Undef, Str("0.9")), Undef, Undef, Undef)

\* {"timestamp": "t5", "best": {"label": "fire", "conf": 1.234}}
LongConfBody == BodyOf(Str("t5"), Undef, Obj(Str("fire"), Num(1234)), Undef, Undef, Undef)

Bodies ==
    {EmptyBody, FullBody, EmptyTimestampBody, BadLabelBody, ClientStampedBody,
     ZeroConfBody, StringConfBody, LongConfBody,
     BodyOf(Num(5000), Bool(TRUE), Str("fire"), Null, Arr, Obj(Undef, Undef)),
     BodyOf(Str("t2"), Str(""), Null, Str(""), Str(""), Str("")),
     BodyOf(Null, Num(900), Obj(Undef, BadToString), Bool(FALSE), Null, Num(0)),
     BodyOf(Undef, Str("0.5"), Arr, Str("snap.jpg"), Undef, Undef)}

NoHeaders == [xff |-> Undef, remote |-> Undef, ua |-> Undef]

PlainHeaders == [xff |-> Undef, remote |-> Str("192.168.0.9"), ua |-> Undef]

Headers ==
    {PlainHeaders,
     [xff |-> Str("10.0.0.1"), remote |-> Str("192.168.0.9"), ua |-> Str("curl/8")]}

Limits ==
    {Absent, Given(<<>>), Given(<<"a", "b", "c">>), Given(<<" ">>),
     Given(<<"0">>), Given(<<"-", "5">>), Given(<<"1">>), Given(<<"2">>),
     Given(<<"7">>), Given(<<"1", ".", "5">>), Given(<<"5", "0">>),
     Given(<<"2", "0", "0">>), Given(<<"2", "0", "1">>), Given(<<"9", "9", "9">>),
     Given(<<"2", "x">>)}

\* the POST and GET requests of the specification Spec, where requests overlap
Posts ==
    {<<Absent, EmptyBody, PlainHeaders>>,
     <<GoodHeader, FullBody, PlainHeaders>>,
     <<GoodHeader, EmptyTimestampBody, PlainHeaders>>,
     <<GoodHeader, BadLabelBody, PlainHeaders>>}

Gets == {<<GoodHeader, Absent>>, <<GoodHeader, Given(<<"1">>)>>}

\* the POST requests of the specification SpecCreate, where create-event
\* requests that pass requireAuth overlap: a body with the usual keys and a
\* body that carries received_at, ip and user_agent
CreatePosts ==
    {<<GoodHeader, FullBody, PlainHeaders>>,
     <<GoodHeader, ClientStampedBody, PlainHeaders>>}

\* the POST and GET requests of the specification SpecOne, which handles one
\* request
AllPosts == AuthHeaders \X Bodies \X Headers

AllGets == AuthHeaders \X Limits

Outcomes == {"ok", "network error", "status not ok", "malformed body"}

\* the collection when the server starts: empty, or three documents of an
\* earlier run, two of them received at the same time
SeedDoc(id, at) ==
    NewDoc(EventOf(FullBody, PlainHeaders, at), id, at)

InitialStores == {<<>>, <<SeedDoc(1, 0), SeedDoc(2, 1), SeedDoc(3, 1)>>}

-----------------------------------------------------------------------------
(* State                                                                   *)

\* a request as it arrives; at is the clock value its handler reads, 0 until
\* it reads the clock
NewReq(method, path, auth, body, hdr, q) ==
    [method |-> method, path |-> path, auth |-> auth, body |-> body, hdr |-> hdr,
     q |-> q, at |-> 0,
     pc |-> "done", op |-> "none", err |-> "", doc |-> NoDoc, limit |-> NaN,
     found |-> <<>>, resp |-> NoResp, nresp |-> 0,
     notif |-> "none", calls |-> 0, fetches |-> 0, text |-> NoText, log |-> <<>>]

InitWith(configs, stores) ==
    /\ server = "starting"
    /\ cfg \in configs
    /\ clock = 1
    /\ store \in stores
    /\ nextId = Len(store) + 1
    /\ reqs = <<>>

Init == InitWith(OverlapConfigs, {<<>>})

InitOne == InitWith(Configs, InitialStores)

\* start(): the connection string is checked, then the connection is opened
Start ==
    /\ server = "starting"
    /\ server' = IF cfg.MONGODB_URI = "" THEN "exited" ELSE "connecting"
    /\ UNCHANGED <<cfg, clock, nextId, store, reqs>>

\* await mongoose.connect(...) settles: listen, or exit
Connect ==
    /\ server = "connecting"
    /\ \E ok \in BOOLEAN : server' = IF ok THEN "listening" ELSE "exited"
    /\ UNCHANGED <<cfg, clock, nextId, store, reqs>>

\* the server's clock advances.  Only the clock values that handlers read are
\* observable, so the clock advances once a handler has read its value
Tick ==
    /\ \E i \in 1..Len(reqs) : reqs[i].at = clock
    /\ clock' = clock + 1
    /\ UNCHANGED <<server, cfg, nextId, store, reqs>>

\* a faulty variant: app.listen is called before the connection is opened
AcceptingEarly == server # "exited" /\ Len(reqs) < MaxReq

\* requests reach the routes once app.listen has been called
Accepting == server = "listening" /\ Len(reqs) < MaxReq

\* GET / and GET /health
Health ==
    /\ Accepting
    /\ \E path \in {"/", "/health"} :
          reqs' = Append(reqs,
              [NewReq("GET", path, Absent, EmptyBody, NoHeaders, Absent) EXCEPT
                  !.at = IF path = "/" THEN 0 ELSE clock,
                  !.resp = IF path = "/" THEN Welcome ELSE HealthUp(clock),
                  !.nresp = 1])
    /\ UNCHANGED <<server, cfg, clock, nextId, store>>

ApiPath == "/api/fire-events"

\* a faulty variant: the handler does not wait for the store operation
AwaitedAtOnce(op) == TRUE

\* a faulty variant: the handler resumes only when the store operation
\* succeeded (a rejection that no catch handles)
AwaitedSuccess(op) == op = "ok"

\* await FireEvent.create(event) / await FireEvent.find()...: the handler
\* resumes when the store operation has settled
Awaited(op) == op # "pending"

\* a faulty variant: the notification is sent outside the try block, whatever the
\* write gave
DispatchesAnyway(op, threw, to) == to # ""

\* a faulty variant: the sender is called without looking at WA_TO
DispatchesWithoutDestination(op, threw, to) == op # "failed" /\ ~threw

\* the handler reaches  if (WA_TO)  with a destination: the write succeeded
\* and building msgText did not throw
Dispatches(op, threw, to) == op # "failed" /\ ~threw /\ to # ""

\* a faulty variant: a failed notification answers the request with an error
RespAfterNotifyFailing(resp, outcome) ==
    IF outcome = "ok" THEN resp ELSE StoreFailed(outcome)

\* .then(...) and .catch(...) of the notification only log (server.js 133-134)
RespAfterNotify(resp, outcome) == resp

\* POST /api/fire-events arrives: requireAuth, then the handler up to
\* await FireEvent.create(event)
PostArrive(inputs) ==
    /\ Accepting
    /\ \E in \in inputs :
          LET auth == in[1]
              body == in[2]
              hdr == in[3]
              r == NewReq("POST", ApiPath, auth, body, hdr, Absent)
          IN  IF ~AuthPasses(cfg.API_KEY, auth)
              THEN /\ reqs' = Append(reqs, [r EXCEPT !.resp = Unauthorized, !.nresp = 1])
                   /\ UNCHANGED nextId
              ELSE /\ reqs' = Append(reqs,
                        [r EXCEPT !.pc = "await", !.op = "pending", !.at = clock,
                                  !.doc = NewDoc(EventOf(body, hdr, clock), nextId, clock)])
                   /\ nextId' = nextId + 1
    /\ UNCHANGED <<server, cfg, clock, store>>

\* a faulty variant: the write replaces what the collection holds
InsertOneReplacing(st, doc) == <<doc>>

\* a faulty variant: a document whose fields equal those of a stored one is
\* not added
InsertOneDeduplicating(st, doc) ==
    IF \E k \in 1..Len(st) : [st[k] EXCEPT !._id = 0] = [doc EXCEPT !._id = 0]
    THEN st
    ELSE Append(st, doc)

\* the insert of FireEvent.create: the document is added to the collection
InsertOne(st, doc) == Append(st, doc)

\* FireEvent.create settles: the document fails validation, or the insert
\* succeeds, or the store fails
StoreSettle ==
    \E i \in 1..Len(reqs) :
        /\ reqs[i].method = "POST"
        /\ reqs[i].op = "pending"
        /\ IF ~Validates(reqs[i].doc)
           THEN /\ reqs' = [reqs EXCEPT ![i].op = "failed", ![i].err = "ValidationError"]
                /\ UNCHANGED store
           ELSE \E ok \in BOOLEAN :
                  IF ok
                  THEN /\ store' = InsertOne(store, reqs[i].doc)
                       /\ reqs' = [reqs EXCEPT ![i].op = "ok"]
                  ELSE /\ reqs' = [reqs EXCEPT ![i].op = "failed", ![i].err = "StoreError"]
                       /\ UNCHANGED store
        /\ UNCHANGED <<server, cfg, clock, nextId>>

\* the POST handler after the await: msgText, the notification, the response
PostResume ==
    \E i \in 1..Len(reqs) :
        LET r == reqs[i]
            d == r.doc
            threw == r.op # "failed" /\ MsgThrows(d.best)
            send == Dispatches(r.op, threw, cfg.WA_TO)
            skip == SendSkips(cfg, cfg.WA_TO)
        IN  /\ r.method = "POST"
            /\ r.pc = "await"
            /\ Awaited(r.op)
            /\ reqs' = [reqs EXCEPT ![i] =
                 [r EXCEPT
                    !.pc = "done",
                    !.nresp = r.nresp + 1,
                    !.resp = CASE r.op = "failed" -> StoreFailed(r.err)
                               [] r.op # "failed" /\ threw -> StoreFailed("TypeError")
                               [] OTHER -> Stored(d),
                    !.calls = IF send THEN r.calls + 1 ELSE r.calls,
                    !.fetches = IF send /\ ~skip THEN r.fetches + 1 ELSE r.fetches,
                    !.text = IF send /\ ~threw
                             THEN MsgText(d.timestamp, d.score, d.best,
                                          d.image_url, d.snapshot_filename)
                             ELSE r.text,
                    !.notif = CASE send /\ skip -> "skipped"
                                [] send /\ ~skip -> "pending"
                                [] OTHER -> r.notif,
                    !.log = CASE send /\ skip -> Append(r.log, "WhatsApp sent: skipped")
                              [] ~send /\ r.op # "failed" /\ ~threw ->
                                     Append(r.log, "WA_TO not set, WhatsApp skipped.")
                              [] OTHER -> r.log]]
            /\ UNCHANGED <<server, cfg, clock, nextId, store>>

\* the fetch of sendWhatsAppAlert settles; its result is only logged
NotifyComplete ==
    \E i \in 1..Len(reqs) : \E outcome \in Outcomes :
        /\ reqs[i].notif = "pending"
        /\ reqs' = [reqs EXCEPT
              ![i].notif = IF outcome = "ok" THEN "sent" ELSE "failed",
              ![i].resp = RespAfterNotify(reqs[i].resp, outcome),
              ![i].log = Append(reqs[i].log,
                           IF outcome = "ok" THEN "WhatsApp sent" ELSE "WhatsApp failed")]
        /\ UNCHANGED <<server, cfg, clock, nextId, store>>

\* GET /api/fire-events arrives: requireAuth, then the handler up to
\* await FireEvent.find()...
GetArrive(inputs) ==
    /\ Accepting
    /\ \E in \in inputs :
          LET auth == in[1]
              q == in[2]
              r == NewReq("GET", ApiPath, auth, EmptyBody, NoHeaders, q)
          IN  reqs' = Append(reqs,
                 IF ~AuthPasses(cfg.API_KEY, auth)
                 THEN [r EXCEPT !.resp = Unauthorized, !.nresp = 1]
                 ELSE [r EXCEPT !.pc = "await", !.op = "pending", !.limit = LimitOf(q)])
    /\ UNCHANGED <<server, cfg, clock, nextId, store>>

\* the query settles: documents, or a store failure
StoreFind ==
    \E i \in 1..Len(reqs) :
        /\ reqs[i].method = "GET"
        /\ reqs[i].op = "pending"
        /\ \/ \E res \in FoundSet(store, reqs[i].limit) :
                 reqs' = [reqs EXCEPT ![i].op = "ok", ![i].found = res]
           \/ reqs' = [reqs EXCEPT ![i].op = "failed", ![i].err = "StoreError"]
        /\ UNCHANGED <<server, cfg, clock, nextId, store>>

\* the GET handler after the await: the response
GetResume ==
    \E i \in 1..Len(reqs) :
        LET r == reqs[i]
        IN  /\ r.method = "GET"
            /\ r.pc = "await"
            /\ Awaited(r.op)
            /\ reqs' = [reqs EXCEPT ![i] =
                 [r EXCEPT !.pc = "done",
                           !.nresp = r.nresp + 1,
                           !.resp = IF r.op = "failed"
                                    THEN ReadFailed(r.err)
                                    ELSE Listed(r.found)]]
            /\ UNCHANGED <<server, cfg, clock, nextId, store>>

\* what happens once requests are in the server
Progress ==
    \/ Start
    \/ Connect
    \/ Tick
    \/ StoreSettle
    \/ PostResume
    \/ NotifyComplete
    \/ StoreFind
    \/ GetResume

\* overlapping requests, drawn from Posts and Gets
Next ==
    \/ Progress
    \/ Health
    \/ PostArrive(Posts)
    \/ GetArrive(Gets)

Spec == Init /\ [][Next]_vars

\* overlapping requests, the create-event requests drawn from CreatePosts
NextCreate ==
    \/ Progress
    \/ Health
    \/ PostArrive(CreatePosts)
    \/ GetArrive(Gets)

SpecCreate == Init /\ [][NextCreate]_vars

\* the configurations of the specification SpecFair: a connection string, a
\* key and the messaging settings are all set
FairConfigs ==
    {c \in OverlapConfigs : c.MONGODB_URI # "" /\ c.API_KEY # <<>> /\ c.WA_TO # ""}

InitFair == InitWith(FairConfigs, {<<>>})

\* the requests of the specification SpecFair: a create-event request without
\* the key and one with it, and a list-events request
FairPosts ==
    {<<Absent, EmptyBody, PlainHeaders>>,
     <<GoodHeader, FullBody, PlainHeaders>>}

FairGets == {<<GoodHeader, Absent>>}

NextFair ==
    \/ Progress
    \/ PostArrive(FairPosts)
    \/ GetArrive(FairGets)

\* overlapping requests whose store operations settle and whose handlers the
\* event loop resumes; nothing makes the messaging call complete
SpecFair ==
    /\ InitFair /\ [][NextFair]_vars
    /\ WF_vars(StoreSettle) /\ WF_vars(PostResume)
    /\ WF_vars(StoreFind) /\ WF_vars(GetResume)

\* every request received so far has been answered
AllAnswered == \A i \in 1..Len(reqs) : reqs[i].pc = "done"

\* sequential requests: a client sends a request once the response to the
\* previous one has come
NextSequential ==
    \/ Progress
    \/ AllAnswered /\ Health
    \/ AllAnswered /\ PostArrive(Posts \cup CreatePosts)
    \/ AllAnswered /\ GetArrive(Gets)

SpecSequential == Init /\ [][NextSequential]_vars

\* one request, drawn from every combination of the inputs
NextOne ==
    \/ Progress
    \/ reqs = <<>> /\ Health
    \/ reqs = <<>> /\ PostArrive(AllPosts)
    \/ reqs = <<>> /\ GetArrive(AllGets)

SpecOne == InitOne /\ [][NextOne]_vars

-----------------------------------------------------------------------------
(* Properties                                                              *)

ReqIds == 1..Len(reqs)

IsApi(r) == r.path = ApiPath

IsCreate(r) == r.method = "POST" /\ IsApi(r)

IsList(r) == r.method = "GET" /\ IsApi(r)

\* the header is exactly "Bearer " followed by the configured secret
HeaderIsSecret(r) == r.auth.present /\ r.auth.s = BearerPrefix \o cfg.API_KEY

Answered(r) == r.resp # NoResp

InStore(d) == \E k \in 1..Len(store) : store[k] = d

\* C1: with a secret configured, a create-event or list-events request whose
\* Authorization header is absent or is not "Bearer <secret>" is answered
\* 401 and has no side effect: no store operation is started, no document is
\* built or stored, no id is consumed and no notification is dispatched.
C1_UnauthorizedRejected ==
    \A i \in ReqIds :
        LET r == reqs[i]
        IN  (IsApi(r) /\ cfg.API_KEY # <<>> /\ ~HeaderIsSecret(r)) =>
                /\ r.resp = Unauthorized
                /\ r.nresp = 1
                /\ r.pc = "done"
                /\ r.op = "none"
                /\ r.doc = NoDoc
                /\ r.found = <<>>
                /\ r.calls = 0 /\ r.fetches = 0 /\ r.notif = "none"
                /\ store \in InitialStores
                /\ nextId = Len(store) + 1

C1_Witness ==
    \E i \in ReqIds :
        /\ IsCreate(reqs[i])
        /\ cfg.API_KEY = KeyAbc
        /\ reqs[i].auth = Given(BearerPrefix \o <<"a", "b">>)
        /\ reqs[i].body = FullBody
        /\ reqs[i].resp = Unauthorized

\* C2: a request to a protected route is never answered 401 when no secret
\* is configured, nor when the header is "Bearer <secret>": the route
\* handler runs (it starts its store operation).
C2_AuthorizedPasses ==
    \A i \in ReqIds :
        LET r == reqs[i]
        IN  (IsApi(r) /\ (cfg.API_KEY = <<>> \/ HeaderIsSecret(r))) =>
                /\ r.resp # Unauthorized
                /\ r.op # "none"

C2_Witness ==
    /\ cfg.API_KEY = <<>>
    /\ \E i \in ReqIds :
          /\ IsCreate(reqs[i]) /\ ~reqs[i].auth.present /\ reqs[i].resp.code = 200
    /\ Len(store) = 1

\* C3: a create-event request that passed authorization is answered only
\* after its store write has completed, with success or with failure; a
\* success response means the document is in the store.
C3_WriteBeforeResponse ==
    \A i \in ReqIds :
        LET r == reqs[i]
        IN  (IsCreate(r) /\ Answered(r) /\ r.resp # Unauthorized) =>
                /\ r.op \in {"ok", "failed"}
                /\ r.resp.code = 200 => InStore(r.doc)

C3_Witness ==
    \E i, j \in ReqIds :
        /\ IsCreate(reqs[i]) /\ reqs[i].resp.code = 200 /\ reqs[i].op = "ok"
        /\ IsCreate(reqs[j]) /\ reqs[j].op = "pending" /\ ~Answered(reqs[j])

\* C4: a notification is dispatched only for a create-event request whose
\* store write has succeeded (never for a failed or pending write, never for
\* an unauthorized request), and at most once per request.
C4_DispatchAfterWrite ==
    \A i \in ReqIds :
        LET r == reqs[i]
        IN  /\ r.calls <= 1
            /\ r.fetches <= r.calls
            /\ (r.calls > 0 \/ r.notif # "none") =>
                  /\ IsCreate(r)
                  /\ r.resp # Unauthorized
                  /\ r.op = "ok"
                  /\ InStore(r.doc)

C4_Witness ==
    \E i, j \in ReqIds :
        /\ reqs[i].calls = 1 /\ reqs[i].notif = "pending" /\ reqs[i].op = "ok"
        /\ IsCreate(reqs[j]) /\ reqs[j].op = "failed" /\ Answered(reqs[j])

\* C5: once the notification of a stored event has been dispatched, the
\* response of its request is already sent, and it is the ok:true response
\* carrying the stored record whether the messaging call is still pending,
\* has succeeded or has failed.
C5_ResponseIgnoresNotification ==
    \A i \in ReqIds :
        LET r == reqs[i]
        IN  r.notif \in {"pending", "sent", "failed"} =>
                /\ r.resp = Stored(r.doc)
                /\ r.nresp = 1
                /\ r.pc = "done"

C5_Witness ==
    \E i, j \in ReqIds :
        /\ reqs[i].notif = "failed" /\ reqs[i].resp = Stored(reqs[i].doc)
        /\ reqs[j].notif = "pending" /\ reqs[j].resp = Stored(reqs[j].doc)

\* C6: a create-event request is answered with the server error only if its
\* store write failed: whenever the write succeeded the response is
\* {ok:true, message, event} with the stored record.
C6_ErrorOnlyIfWriteFailed ==
    \A i \in ReqIds :
        LET r == reqs[i]
        IN  (IsCreate(r) /\ Answered(r) /\ r.op = "ok") => r.resp = Stored(r.doc)

StringFields == {"score", "snapshot_filename", "image_url", "cloudinary_public_id"}

FieldOf(rec, f) ==
    CASE f = "score" -> rec.score
      [] f = "snapshot_filename" -> rec.snapshot_filename
      [] f = "image_url" -> rec.image_url
      [] f = "cloudinary_public_id" -> rec.cloudinary_public_id
      [] f = "timestamp" -> rec.timestamp

\* C7: in the stored record of a create-event request, score,
\* snapshot_filename, image_url and cloudinary_public_id equal the client's
\* value when it is a string and the empty string otherwise; timestamp equals
\* the client's value when it is a string and otherwise the server's time as
\* an ISO-8601 string; every one of them is a string.
C7_StringFieldsNormalized ==
    \A i \in ReqIds : \A k \in 1..Len(store) :
        LET r == reqs[i]
            d == store[k]
        IN  (IsCreate(r) /\ r.doc # NoDoc /\ d._id = r.doc._id) =>
                /\ \A f \in StringFields :
                      /\ FieldOf(d, f).t = "string"
                      /\ FieldOf(r.body, f).t = "string" => FieldOf(d, f) = FieldOf(r.body, f)
                      /\ FieldOf(r.body, f).t # "string" => FieldOf(d, f).s = ""
                /\ d.timestamp.t = "string"
                /\ r.body.timestamp.t = "string" => d.timestamp = r.body.timestamp
                /\ r.body.timestamp.t # "string" => d.timestamp.s = ToISOString(r.at)

C7_Witness ==
    \E i \in ReqIds : \E k \in 1..Len(store) :
        /\ IsCreate(reqs[i]) /\ store[k]._id = reqs[i].doc._id
        /\ reqs[i].body.timestamp = Num(5000)
        /\ reqs[i].body.score = Bool(TRUE)
        /\ store[k].score = Str("")
        /\ store[k].timestamp = Str("1970-01-01T00:00:01.000Z")

\* C8: an authorized create-event request is never rejected because of its
\* body: unless the store itself fails, the record is stored and the response
\* is ok:true.
C8_BodyNeverRejected ==
    \A i \in ReqIds :
        LET r == reqs[i]
        IN  (IsCreate(r) /\ r.resp # Unauthorized /\ r.err # "StoreError") =>
                /\ r.op # "pending" => r.op = "ok" /\ InStore(r.doc)
                /\ Answered(r) => r.resp.code = 200 /\ r.resp.ok

\* the limit the claim C9 expects for the query parameter q
ExpectedLimit(q) ==
    LET v == StringToNumber(q.s)
    IN  CASE ~q.present \/ q.s = <<>> \/ v.nan -> DefaultLimit * Scale
          [] q.present /\ q.s # <<>> /\ ~v.nan /\ v.m < MinLimit * Scale -> MinLimit * Scale
          [] q.present /\ q.s # <<>> /\ ~v.nan /\ v.m > MaxLimit * Scale -> MaxLimit * Scale
          [] OTHER -> v.m

\* C9: the limit passed to the store is an integer in [1, 200]: 50 when the
\* parameter is absent or not numeric, the parameter's value when that is
\* within [1, 200], 1 below and 200 above.
C9_LimitClamped ==
    \A i \in ReqIds :
        LET r == reqs[i]
        IN  (IsList(r) /\ r.op # "none") =>
                /\ IsInteger(r.limit)
                /\ r.limit.m >= MinLimit * Scale
                /\ r.limit.m <= MaxLimit * Scale
                /\ r.limit.m = ExpectedLimit(r.q)

\* the largest number of records the claim C10 allows for the query
\* parameter q, when q is absent or a whole number: min(max(limit, 1), 200)
WholeLimit(q) == ~q.present \/ q.s = <<>> \/ IsInteger(StringToNumber(q.s))

AllowedCount(q) ==
    LET v == IF ~q.present \/ q.s = <<>> THEN DefaultLimit ELSE StringToNumber(q.s).m \div Scale
        lo == IF v < 1 THEN 1 ELSE v
    IN  IF lo > 200 THEN 200 ELSE lo

C11_ReceivedAtServerTime ==
    /\ \A i \in ReqIds :
          LET r == reqs[i]
          IN  (IsCreate(r) /\ r.doc # NoDoc) =>
                  /\ r.doc.received_at = r.at
                  /\ \A k \in 1..Len(store) :
                        store[k]._id = r.doc._id => store[k].received_at = r.at
    /\ \A i, j \in ReqIds :
          LET a == reqs[i]
              b == reqs[j]
          IN  (IsCreate(a) /\ IsCreate(b) /\ a.doc # NoDoc /\ b.doc # NoDoc
                 /\ a.at = b.at /\ a.hdr = b.hdr) =>
                  a.doc.received_at = b.doc.received_at

C11_Witness ==
    \E i, j \in ReqIds :
        /\ IsCreate(reqs[i]) /\ IsCreate(reqs[j])
        /\ reqs[i].body = ClientStampedBody /\ reqs[j].body = FullBody
        /\ reqs[i].at = reqs[j].at
        /\ InStore(reqs[i].doc) /\ InStore(reqs[j].doc)
        /\ reqs[i].doc.received_at = reqs[j].doc.received_at

\* C12: the store changes only in a step where the write of a create-event
\* request succeeds, and that step adds exactly one record, with a new id,
\* after the records already there, which stay as they are; a request that
\* arrives (a health check, a list-events request, an unauthorized request),
\* a write that fails, a query and a response leave the store unchanged.
C12_StoreOnlyGrows ==
    [][/\ store' # store =>
             /\ Len(store') = Len(store) + 1
             /\ SubSeq(store', 1, Len(store)) = store
             /\ \A k \in 1..Len(store) : store[k]._id # store'[Len(store')]._id
             /\ \E i \in ReqIds :
                   /\ IsCreate(reqs[i]) /\ reqs[i].resp # Unauthorized
                   /\ reqs[i].op = "pending" /\ reqs'[i].op = "ok"
                   /\ store'[Len(store')] = reqs[i].doc
       /\ Len(reqs') # Len(reqs) => store' = store
       /\ \A i \in ReqIds :
             \/ i > Len(reqs')
             \/ reqs'[i] = reqs[i]
             \/ (IsCreate(reqs[i]) /\ reqs[i].op = "pending" /\ reqs'[i].op = "ok")
             \/ store' = store]_vars

C12_Witness ==
    /\ Len(store) = 2
    /\ store[1]._id # store[2]._id
    /\ \E i, j \in ReqIds :
          /\ IsCreate(reqs[i]) /\ reqs[i].op = "ok" /\ store[1] = reqs[i].doc
          /\ IsCreate(reqs[j]) /\ reqs[j].op = "ok" /\ store[2] = reqs[j].doc

\* C13: in the notification text of a stored event the Conf line is best.conf
\* with two decimal places when best.conf is a number, whatever its value,
\* and "-" when best is absent, has no conf, or has a conf that is not a
\* number.
C13_ConfLine ==
    \A i \in ReqIds :
        LET r == reqs[i]
            conf == GetProp(r.doc.best, "conf")
        IN  (IsCreate(r) /\ r.text # NoText) =>
                /\ conf.t = "number" => r.text.conf = ToFixed2(Finite(conf.n))
                /\ conf.t # "number" => r.text.conf = "-"

SkipLine == "WA_TO not set, WhatsApp skipped."

\* C14: when no destination is configured the sender is never called and no
\* outbound request is made; a create-event request that reaches the
\* destination test (its write succeeded and its text was built) only logs
\* the skip and is answered ok:true with the stored record.  No outbound
\* request is made unless the sender id, the access token and the
\* destination are all configured.
C14_NoDestinationNoDispatch ==
    \A i \in ReqIds :
        LET r == reqs[i]
        IN  /\ cfg.WA_TO = "" =>
                  /\ r.calls = 0 /\ r.fetches = 0 /\ r.notif = "none"
                  /\ (IsCreate(r) /\ r.pc = "done" /\ r.op = "ok" /\ ~MsgThrows(r.doc.best)) =>
                        /\ r.log = <<SkipLine>>
                        /\ r.resp = Stored(r.doc)
                        /\ r.nresp = 1
            /\ (cfg.WA_PHONE_NUMBER_ID = "" \/ cfg.WA_ACCESS_TOKEN = "" \/ cfg.WA_TO = "") =>
                  /\ r.fetches = 0
                  /\ r.notif \in {"none", "skipped"}
            /\ cfg.WA_TO # "" => \A k \in 1..Len(r.log) : r.log[k] # SkipLine

C14_Witness ==
    /\ cfg.WA_TO = "" /\ cfg.WA_PHONE_NUMBER_ID # "" /\ cfg.WA_ACCESS_TOKEN # ""
    /\ \E i \in ReqIds :
          /\ IsCreate(reqs[i]) /\ reqs[i].body = FullBody
          /\ reqs[i].log = <<SkipLine>>
          /\ reqs[i].resp = Stored(reqs[i].doc)
          /\ reqs[i].calls = 0

\* the create-event requests whose write has succeeded
Written == {i \in ReqIds : IsCreate(reqs[i]) /\ reqs[i].op = "ok"}

\* C15: however create-event requests interleave, the store holds exactly
\* one record for each request whose write succeeded, also when payloads are
\* identical; the records have distinct ids; and a success response carries
\* the record built from the payload of its own request.
C15_CreatesIndependent ==
    /\ Len(store) = Cardinality(Written)
    /\ \A k, l \in 1..Len(store) : k # l => store[k]._id # store[l]._id
    /\ \A i \in Written :
          /\ Cardinality({k \in 1..Len(store) : store[k] = reqs[i].doc}) = 1
          /\ reqs[i].doc = NewDoc(EventOf(reqs[i].body, reqs[i].hdr, reqs[i].at),
                                  reqs[i].doc._id, reqs[i].at)
          /\ \A j \in Written : i # j => reqs[i].doc._id # reqs[j].doc._id
    /\ \A i \in ReqIds :
          (IsCreate(reqs[i]) /\ reqs[i].resp.code = 200) =>
              /\ i \in Written
              /\ reqs[i].resp.event = reqs[i].doc

C15_Witness ==
    /\ Len(reqs) = 2
    /\ reqs[1].body = FullBody /\ reqs[2].body = FullBody
    /\ reqs[1].at = reqs[2].at
    /\ Len(store) = 2
    /\ store[1] = reqs[2].doc /\ store[2] = reqs[1].doc
    /\ reqs[1].resp = Stored(reqs[1].doc)
    /\ reqs[2].resp = Stored(reqs[2].doc)

\* C16: when each request starts after the response to the previous one,
\* the records of the store are in the order of their received_at: a newly
\* stored record has a received_at greater than or equal to that of every
\* record stored before it.
C16_SequentialMonotonic ==
    [][store' # store =>
          \A k \in 1..Len(store) :
              store[k].received_at <= store'[Len(store')].received_at]_vars

C16_Witness ==
    /\ Len(store) = 2
    /\ store[1].received_at < store[2].received_at
    /\ reqs[1].doc = store[1] /\ reqs[2].doc = store[2]
    /\ reqs[2].body = ClientStampedBody

\* C17: a request is handled only by a server that is listening, and the
\* server listens only after its one connection attempt has succeeded: from
\* its start it exits when the connection string is missing and otherwise
\* connects; from connecting it listens or exits; it never connects again;
\* once exited it stays exited and handles nothing.
C17_ConnectBeforeListen ==
    [][/\ Len(reqs') > Len(reqs) => server = "listening" /\ cfg.MONGODB_URI # ""
       /\ reqs' # reqs => server = "listening"
       /\ (server = "starting" /\ server' # server) =>
             server' = IF cfg.MONGODB_URI = "" THEN "exited" ELSE "connecting"
       /\ (server = "connecting" /\ server' # server) => server' \in {"listening", "exited"}
       /\ server = "listening" => server' = "listening"
       /\ server = "exited" => server' = "exited" /\ reqs' = reqs /\ store' = store
       /\ server' = "connecting" => server \in {"starting", "connecting"}
       /\ server' = "starting" => server = "starting"]_vars

C17_Witness ==
    /\ server = "exited"
    /\ cfg.MONGODB_URI # ""
    /\ reqs = <<>>

\* C18: the store operation of a request settles once and is not started
\* again; when it failed, the response is the server error (status 500,
\* ok:false, the route's error text, the failure as details), sent once; a
\* failed create-event request has no record in the store and a failed
\* list-events request returns no events.
C18_StoreFailureTerminal ==
    [][\A i \in 1..Len(reqs') :
          LET r == reqs'[i]
          IN  /\ (i <= Len(reqs) /\ reqs[i].op \in {"ok", "failed"}) =>
                    r.op = reqs[i].op /\ r.err = reqs[i].err
              /\ r.op = "failed" =>
                    /\ r.resp # Unauthorized
                    /\ r.found = <<>>
                    /\ IsCreate(r) => \A k \in 1..Len(store') : store'[k]._id # r.doc._id
                    /\ r.pc = "done" =>
                          /\ r.nresp = 1
                          /\ r.resp = [code |-> 500, ok |-> FALSE,
                                       error |-> IF IsCreate(r) THEN "Failed to store event"
                                                 ELSE "Failed to read events",
                                       details |-> r.err]]_vars

C18_Witness ==
    /\ store = <<>>
    /\ \E i, j \in ReqIds :
          /\ IsCreate(reqs[i]) /\ reqs[i].op = "failed" /\ reqs[i].err = "StoreError"
          /\ reqs[i].resp = StoreFailed("StoreError")
          /\ IsList(reqs[j]) /\ reqs[j].op = "failed"
          /\ reqs[j].resp = ReadFailed("StoreError")

\* C19: in the stored record of a create-event request, best is the client's
\* value when that value is a key-value object, and null in every other
\* case: the key is missing, or its value is null, an array, a string, a
\* number or a boolean.
C19_BestObjectOrNull ==
    \A i \in ReqIds : \A k \in 1..Len(store) :
        LET r == reqs[i]
            d == store[k]
        IN  (IsCreate(r) /\ r.doc # NoDoc /\ d._id = r.doc._id) =>
                /\ r.body.best.t = "object" => d.best = r.body.best
                /\ r.body.best.t # "object" => d.best = Null

\* C20: a request gets one response and no more: the number of responses
\* sent never exceeds one, a response once sent is not followed by another
\* or replaced, and a 401 is not followed by a handler run; and every
\* request received is eventually answered when store operations settle,
\* whether or not the messaging call ever completes.
C20_ExactlyOneResponse ==
    /\ [][\A i \in 1..Len(reqs') :
             LET r == reqs'[i]
             IN  /\ r.nresp <= 1
                 /\ r.resp # NoResp <=> r.nresp = 1
                 /\ r.resp = Unauthorized => r.pc = "done" /\ r.op = "none"
                 /\ (i <= Len(reqs) /\ Answered(reqs[i])) =>
                       r.resp = reqs[i].resp /\ r.nresp = reqs[i].nresp]_vars
    /\ \A i \in 1..MaxReq :
          (Len(reqs) >= i) ~> (Len(reqs) >= i /\ reqs[i].nresp = 1)

C20_Witness ==
    \E i, j \in ReqIds :
        /\ IsCreate(reqs[i]) /\ reqs[i].nresp = 1 /\ reqs[i].notif = "pending"
        /\ IsList(reqs[j]) /\ reqs[j].nresp = 1 /\ reqs[j].resp.code = 200

====
